---- MODULE Spec2Model ----
(***************************************************************************)
(* Model of mariner: the ElegooMars serial protocol client (mars.py) and   *)
(* the configuration getters (config.py).                                  *)
(*                                                                         *)
(* Bytes and text are sequences of one-character strings; the byte 0xFF,   *)
(* which is never valid UTF-8, is the element BadByte.                     *)
(***************************************************************************)
EXTENDS Integers, Sequences, FiniteSets, TLC

\* ------------------------------------------------------------------ bounds
MaxHandles == 2      \* serial.Serial objects constructed in one run
MaxCalls == 5        \* calls made on the client in one run
MaxReplyLen == 6     \* bytes of a reply line in the firmware-version runs
MaxStatusLen == 5    \* lexemes of a reply in the print-status runs

\* ------------------------------------------------------------- text values
None == 0
BadByte == "0xFF"
LF == "\n"
CR == "\r"

Lower == {"a","b","c","d","e","f","g","h","i","j","k","l","m",
          "n","o","p","q","r","s","t","u","v","w","x","y","z"}
Upper == {"A","B","C","D","E","F","G","H","I","J","K","L","M",
          "N","O","P","Q","R","S","T","U","V","W","X","Y","Z"}
Digit == {"0","1","2","3","4","5","6","7","8","9"}
\* the character class [a-zA-Z0-9_.] of the firmware-version pattern
TokenChars == Lower \cup Upper \cup Digit \cup {"_", "."}

\* sequences over S of length at most n
RECURSIVE SeqsUpTo(_, _)
SeqsUpTo(S, n) ==
    IF n = 0 THEN {<<>>}
    ELSE LET shorter == SeqsUpTo(S, n - 1)
         IN  shorter \cup {Append(s, c) : s \in {t \in shorter : Len(t) = n - 1}, c \in S}

\* --------------------------------------------------------------- outcomes
Return(v) == [kind |-> "return", val |-> v, exc |-> ""]
Raise(e) == [kind |-> "raise", val |-> <<>>, exc |-> e]

NotOpenedMsg == "AssertionError: Tried to communicate with serial port without opening it"
InvalidStatusMsg == "AssertionError: Received invalid status response from printer"
UnexpectedNoneMsg == "AssertionError: Unexpected None"
DecodeErrorMsg == "UnicodeDecodeError"
SerialExceptionMsg == "SerialException"
PortNotOpenMsg == "PortNotOpenError"

\* ------------------------------------------------------------------ state
VARIABLES
    port,         \* ElegooMars._serial_port: None or the Serial object held
    transport,    \* every Serial object's state: "unborn", "open" or "closed"
    log,          \* the calls made on Serial objects, in order
    last,         \* the last call made on the client and its outcome
    calls,        \* number of calls made on the client
    scope,        \* position relative to a with-block: "out", "in", "raised"
    scopeHandle,  \* the Serial object acquired at the last block entry
    fs,           \* the three paths of the configuration search path
    cache,        \* lru_cache of _get_config: the dictionary once loaded
    got           \* the last configuration getter called and its outcome

sessionVars == <<port, transport, log, last, calls, scope, scopeHandle>>
configVars == <<fs, cache, got>>
vars == <<port, transport, log, last, calls, scope, scopeHandle, fs, cache, got>>

Handles == 1..MaxHandles

Ev(op, h, data) == [op |-> op, h |-> h, data |-> data]

\* command bytes
M4002 == <<"M","4","0","0","2">>
M4000 == <<"M","4","0","0","0">>

\* ---------------------------------------------------------- pure functions
\* bytes.decode("utf-8"): ASCII bytes map to the same characters, 0xFF to
\* no character at all
decode(bytes) ==
    IF \E i \in 1..Len(bytes) : bytes[i] = BadByte
    THEN Raise(DecodeErrorMsg)
    ELSE Return(bytes)

\* Python's "$" without MULTILINE: at the end of the string, or just before
\* a newline that is the string's last character
AtDollar(data, pos) ==
    \/ pos = Len(data) + 1
    \/ pos = Len(data) /\ data[pos] = LF

\* the pattern without its "\n": "^ok ([a-zA-Z0-9_.]+)$"
firmware_search_no_newline(data) ==
    LET ends == {e \in 4..Len(data) :
                    /\ data[1] = "o" /\ data[2] = "k" /\ data[3] = " "
                    /\ \A i \in 4..e : data[i] \in TokenChars
                    /\ AtDollar(data, e + 1)}
    IN  IF ends = {} THEN 0 ELSE CHOOSE e \in ends : TRUE

\* re.search("^ok ([a-zA-Z0-9_.]+)\n$", data): the index of the last
\* character of group 1, or 0 when there is no match.  "^" pins the match to
\* the start; the token cannot contain LF, so its end is unique.
firmware_search(data) ==
    LET ends == {e \in 4..Len(data) :
                    /\ Len(data) >= e + 1
                    /\ data[1] = "o" /\ data[2] = "k" /\ data[3] = " "
                    /\ \A i \in 4..e : data[i] \in TokenChars
                    /\ data[e + 1] = LF
                    /\ AtDollar(data, e + 2)}
    IN  IF ends = {} THEN 0 ELSE CHOOSE e \in ends : TRUE

\* decimal digits of a natural number
RECURSIVE NatDigits(_)
NatDigits(n) ==
    LET d == <<"0","1","2","3","4","5","6","7","8","9">>[(n % 10) + 1]
    IN  IF n < 10 THEN <<d>> ELSE Append(NatDigits(n \div 10), d)

\* f"G0 Z{z_pos:.1f}".encode() for a z_pos of `tenths` tenths of a millimetre
move_to_bytes(tenths) ==
    LET mag == IF tenths < 0 THEN -tenths ELSE tenths
        sign == IF tenths < 0 THEN <<"-">> ELSE <<>>
    IN  <<"G","0"," ","Z">> \o sign \o NatDigits(mag \div 10) \o <<".">>
            \o NatDigits(mag % 10)

\* ------------------------------------------------------- the client's methods
\* Each returns what the call does: the calls made on Serial objects (events)
\* and how the method ends (out); open also returns the new _serial_port.

\* ElegooMars.open: serial.Serial(...) constructs and opens a new port
\* object `fresh`, or raises SerialException (fault) before the assignment
ElegooMars_open(self_port, fresh, fault) ==
    IF fault
    THEN [port |-> self_port, opened |-> None, events |-> <<>>,
          out |-> Raise(SerialExceptionMsg)]
    ELSE [port |-> fresh, opened |-> fresh,
          events |-> <<Ev("open", fresh, <<>>)>>, out |-> Return(<<>>)]

\* close() that returns without closing the Serial object
ElegooMars_close_unreleased(self_port) ==
    IF self_port = None
    THEN [closed |-> None, events |-> <<>>, out |-> Raise(UnexpectedNoneMsg)]
    ELSE [closed |-> None, events |-> <<>>, out |-> Return(<<>>)]

\* ElegooMars.close: _serial_port itself is left as it was
ElegooMars_close(self_port) ==
    IF self_port = None
    THEN [closed |-> None, events |-> <<>>, out |-> Raise(UnexpectedNoneMsg)]
    ELSE [closed |-> self_port, events |-> <<Ev("close", self_port, <<>>)>>,
          out |-> Return(<<>>)]

WriteEv(h, data) == Ev("write", h, data)
ReadEv(h) == Ev("readline", h, <<>>)

\* an exchange that sends the command again when nothing came back
exchange_resending(serial_port, tstate, data, env) ==
    IF tstate[serial_port] # "open"
    THEN [events |-> <<WriteEv(serial_port, data)>>, out |-> Raise(PortNotOpenMsg)]
    ELSE IF env.wfault
    THEN [events |-> <<WriteEv(serial_port, data)>>, out |-> Raise(SerialExceptionMsg)]
    ELSE IF env.rfault
    THEN [events |-> <<WriteEv(serial_port, data), ReadEv(serial_port)>>,
          out |-> Raise(SerialExceptionMsg)]
    ELSE IF env.line = <<>>
    THEN [events |-> <<WriteEv(serial_port, data), ReadEv(serial_port),
                       WriteEv(serial_port, data), ReadEv(serial_port)>>,
          out |-> decode(env.line)]
    ELSE [events |-> <<WriteEv(serial_port, data), ReadEv(serial_port)>>,
          out |-> decode(env.line)]

\* an exchange that rejects a line without its terminator
exchange_requiring_terminator(serial_port, tstate, data, env) ==
    IF tstate[serial_port] # "open"
    THEN [events |-> <<WriteEv(serial_port, data)>>, out |-> Raise(PortNotOpenMsg)]
    ELSE IF env.wfault
    THEN [events |-> <<WriteEv(serial_port, data)>>, out |-> Raise(SerialExceptionMsg)]
    ELSE IF env.rfault
    THEN [events |-> <<WriteEv(serial_port, data), ReadEv(serial_port)>>,
          out |-> Raise(SerialExceptionMsg)]
    ELSE IF env.line = <<>> \/ env.line[Len(env.line)] # LF
    THEN [events |-> <<WriteEv(serial_port, data), ReadEv(serial_port)>>,
          out |-> Raise(InvalidStatusMsg)]
    ELSE [events |-> <<WriteEv(serial_port, data), ReadEv(serial_port)>>,
          out |-> decode(env.line)]

\* serial_port.write(data); return serial_port.readline().decode("utf-8")
\* env is what the device and the link do: wfault (write raises), rfault
\* (readline raises), line (the bytes readline returns).  A closed Serial
\* object refuses the write with PortNotOpenError; an exception ends the
\* method where it is raised.
exchange(serial_port, tstate, data, env) ==
    IF tstate[serial_port] # "open"
    THEN [events |-> <<WriteEv(serial_port, data)>>, out |-> Raise(PortNotOpenMsg)]
    ELSE IF env.wfault
    THEN [events |-> <<WriteEv(serial_port, data)>>, out |-> Raise(SerialExceptionMsg)]
    ELSE IF env.rfault
    THEN [events |-> <<WriteEv(serial_port, data), ReadEv(serial_port)>>,
          out |-> Raise(SerialExceptionMsg)]
    ELSE [events |-> <<WriteEv(serial_port, data), ReadEv(serial_port)>>,
          out |-> decode(env.line)]

\* _send_and_read without the none_throws check: None has no write method
_send_and_read_unchecked(self_port, tstate, data, env) ==
    IF self_port = None
    THEN [events |-> <<>>, out |-> Raise("AttributeError")]
    ELSE exchange(self_port, tstate, data, env)

\* ElegooMars._send_and_read
_send_and_read(self_port, tstate, data, env) ==
    IF self_port = None
    THEN [events |-> <<>>, out |-> Raise(NotOpenedMsg)]
    ELSE exchange(self_port, tstate, data, env)

\* ElegooMars.get_firmware_version
ElegooMars_get_firmware_version(self_port, tstate, env) ==
    LET r == _send_and_read(self_port, tstate, M4002, env)
        e == firmware_search(r.out.val)
    IN  IF r.out.kind = "raise" THEN r
        ELSE IF e = 0 THEN [r EXCEPT !.out = Raise(InvalidStatusMsg)]
        ELSE [r EXCEPT !.out = Return(SubSeq(r.out.val, 4, e))]

\* ElegooMars.get_state
ElegooMars_get_state(self_port, tstate, env) ==
    _send_and_read(self_port, tstate, M4000, env)

\* ElegooMars.move_to
ElegooMars_move_to(self_port, tstate, z_tenths, env) ==
    _send_and_read(self_port, tstate, move_to_bytes(z_tenths), env)

\* ------------------------------------------------------------ environment
Env(w, r, l) == [wfault |-> w, rfault |-> r, line |-> l]
NoEnv == Env(FALSE, FALSE, <<>>)

\* reply lines of the session runs: nothing before the timeout, a line cut
\* short by the timeout, an accepted line, a CR LF line, an undecodable line
SessionLines ==
    { <<>>,
      <<"o","k">>,
      <<"o","k"," ","V",LF>>,
      <<"o","k"," ","V",CR,LF>>,
      <<BadByte,LF>> }

EnvOver(lines) ==
    {Env(TRUE, FALSE, <<>>), Env(FALSE, TRUE, <<>>)}
        \cup {Env(FALSE, FALSE, l) : l \in lines}

\* z positions passed to move_to, in tenths of a millimetre
ZPositions == {-100, 153}

CommandOps == {"get_firmware_version", "get_state", "move_to"}

\* ------------------------------------------------ configuration: values
\* Python and TOML values, tagged by type; a string is its characters
StrV(chars) == [t |-> "str", v |-> chars]
IntV(n) == [t |-> "int", v |-> n]
BoolV(b) == [t |-> "bool", v |-> b]
TableV(d) == [t |-> "table", v |-> d]
PathOf(chars) == [t |-> "path", v |-> chars]
NoneV == [t |-> "none", v |-> <<>>]

\* the keys each section's getters read
SectionKeys ==
    [printer |-> {"display_name", "serial_port", "baudrate"},
     relay_board |-> {"relay_pin", "initial_value", "active_high"},
     http |-> {"host", "port"},
     cache |-> {"directory"},
     homeassistant |-> {"address", "user", "password", "topic"}]
Sections == DOMAIN SectionKeys

\* scalar values a key is given in the runs
Scalars == {StrV(<<"x">>), StrV(<<"9", "6">>), IntV(96), BoolV(FALSE)}

\* A dictionary is the set of its <<key, value>> entries.
\* toml.loads of an empty document, and _get_config's {} when there is no file
EmptyDoc == {}

\* documents of the runs: one top-level entry, set to a scalar (for a section,
\* the wrong type) or to a table holding at most one of the section's keys
Docs ==
    {EmptyDoc}
      \cup {{<<"files_directory", x>>} : x \in Scalars}
      \cup {{<<sec, StrV(<<"x">>)>>} : sec \in Sections}
      \cup {{<<sec, TableV({})>>} : sec \in Sections}
      \cup UNION {{{<<sec, TableV({<<k, x>>})>>} :
                      k \in SectionKeys[sec], x \in Scalars} : sec \in Sections}

\* another valid file, to tell which path was loaded
OtherDoc == {<<"cache", TableV({<<"directory", StrV(<<"o">>)>>})>>}

\* dict.get(key, default); dict.get(key) is dict.get(key, None)
dict_get(d, key, default) ==
    IF \E e \in d : e[1] = key
    THEN (CHOOSE e \in d : e[1] = key)[2]
    ELSE default

\* str(x) of a TOML scalar
py_str(x) ==
    IF x.t = "str" THEN Return(x)
    ELSE IF x.t = "int" THEN Return(StrV(NatDigits(x.v)))
    ELSE IF x.t = "bool"
    THEN Return(StrV(IF x.v THEN <<"T","r","u","e">> ELSE <<"F","a","l","s","e">>))
    ELSE Return(StrV(<<"N","o","n","e">>))

\* index of a decimal digit character
DigitValue(c) == CHOOSE n \in 0..9 : NatDigits(n) = <<c>>

RECURSIVE DigitsValue(_)
DigitsValue(cs) ==
    IF Len(cs) = 1 THEN DigitValue(cs[1])
    ELSE 10 * DigitsValue(SubSeq(cs, 1, Len(cs) - 1)) + DigitValue(cs[Len(cs)])

\* int(x): a string must be decimal digits, None is a TypeError
py_int(x) ==
    IF x.t = "int" THEN Return(x)
    ELSE IF x.t = "bool" THEN Return(IntV(IF x.v THEN 1 ELSE 0))
    ELSE IF x.t = "str"
    THEN IF Len(x.v) >= 1 /\ \A i \in 1..Len(x.v) : x.v[i] \in Digit
         THEN Return(IntV(DigitsValue(x.v)))
         ELSE Raise("ValueError")
    ELSE Raise("TypeError")

\* bool(x): truthiness
py_bool(x) ==
    IF x.t = "bool" THEN Return(x)
    ELSE IF x.t = "int" THEN Return(BoolV(x.v # 0))
    ELSE IF x.t = "str" THEN Return(BoolV(Len(x.v) > 0))
    ELSE Return(BoolV(FALSE))

\* ------------------------------------------------ configuration: loading
\* potential_paths, in order: config.toml, ~/.mariner/config.toml,
\* /etc/mariner/config.toml
Paths == 1..3

\* __get_config_filename: the first path that exists and is no directory
get_config_filename(files) ==
    LET found == {p \in Paths : files[p].kind \in {"file", "badfile"}}
    IN  IF found = {} THEN None
        ELSE CHOOSE p \in found : \A q \in found : p <= q

\* _get_config under lru_cache: the first call that returns fixes the answer
\* of all later calls; a call that raises caches nothing
get_config(cached, files) ==
    LET filename == get_config_filename(files)
    IN  IF cached.set THEN [out |-> Return(cached.doc), cache |-> cached]
        ELSE IF filename = None
        THEN [out |-> Return(EmptyDoc), cache |-> [set |-> TRUE, doc |-> EmptyDoc]]
        ELSE IF files[filename].kind = "badfile"
        THEN [out |-> Raise("TomlDecodeError"), cache |-> cached]
        ELSE [out |-> Return(files[filename].doc),
              cache |-> [set |-> TRUE, doc |-> files[filename].doc]]

\* ------------------------------------------------ configuration: getters
\* Each takes the dictionary _get_config() returned.
DefaultFilesDirectory == <<"/", "m", "n", "t", "/", "u", "s", "b", "_", "s", "h", "a", "r", "e">>
DefaultSerialPort == <<"/", "d", "e", "v", "/", "s", "e", "r", "i", "a", "l", "0">>
DefaultHost == <<"0", ".", "0", ".", "0", ".", "0">>
DefaultCacheDirectory == <<"/", "t", "m", "p", "/", "m", "a", "r", "i", "n", "e", "r", "/">>

config_get_files_directory(config) ==
    LET r == py_str(dict_get(config, "files_directory", StrV(DefaultFilesDirectory)))
    IN  Return(PathOf(r.val.v))

config_get_printer_display_name(config) ==
    LET printer_config == dict_get(config, "printer", NoneV)
        display_name == dict_get(printer_config.v, "display_name", NoneV)
    IN  IF printer_config.t # "table" THEN Return(NoneV)
        ELSE IF display_name = NoneV THEN Return(NoneV)
        ELSE py_str(display_name)

config_get_printer_serial_port(config) ==
    LET printer_config == dict_get(config, "printer", NoneV)
    IN  IF printer_config.t # "table" THEN Return(StrV(DefaultSerialPort))
        ELSE py_str(dict_get(printer_config.v, "serial_port", StrV(DefaultSerialPort)))

\* get_printer_baudrate without the isinstance check
config_get_printer_baudrate_unchecked(config) ==
    LET printer_config == dict_get(config, "printer", NoneV)
    IN  IF printer_config.t # "table" THEN Raise("AttributeError")
        ELSE py_int(dict_get(printer_config.v, "baudrate", IntV(115200)))

config_get_printer_baudrate(config) ==
    LET printer_config == dict_get(config, "printer", NoneV)
    IN  IF printer_config.t # "table" THEN Return(IntV(115200))
        ELSE py_int(dict_get(printer_config.v, "baudrate", IntV(115200)))

config_get_relay_pin(config) ==
    LET printer_config == dict_get(config, "relay_board", NoneV)
    IN  IF printer_config.t # "table" THEN Return(NoneV)
        ELSE py_int(dict_get(printer_config.v, "relay_pin", NoneV))

config_get_relay_initial_value(config) ==
    LET printer_config == dict_get(config, "relay_board", NoneV)
    IN  IF printer_config.t # "table" THEN Return(NoneV)
        ELSE py_int(dict_get(printer_config.v, "initial_value", NoneV))

config_get_relay_active_high(config) ==
    LET printer_config == dict_get(config, "relay_board", NoneV)
    IN  IF printer_config.t # "table" THEN Return(NoneV)
        ELSE py_bool(dict_get(printer_config.v, "active_high", NoneV))

config_get_http_host(config) ==
    LET http_config == dict_get(config, "http", NoneV)
    IN  IF http_config.t # "table" THEN Return(StrV(DefaultHost))
        ELSE py_str(dict_get(http_config.v, "host", StrV(DefaultHost)))

config_get_http_port(config) ==
    LET http_config == dict_get(config, "http", NoneV)
    IN  IF http_config.t # "table" THEN Return(IntV(5050))
        ELSE py_int(dict_get(http_config.v, "port", IntV(5050)))

config_get_cache_directory(config) ==
    LET cache_config == dict_get(config, "cache", NoneV)
    IN  IF cache_config.t # "table" THEN Return(StrV(DefaultCacheDirectory))
        ELSE py_str(dict_get(cache_config.v, "directory", StrV(DefaultCacheDirectory)))

\* the four home-assistant getters read printer_config, a name bound neither
\* in the function nor in the module: NameError once the section is a table
config_get_ha_srv(config) ==
    LET ha_config == dict_get(config, "homeassistant", NoneV)
    IN  IF ha_config.t # "table" THEN Return(NoneV) ELSE Raise("NameError")

config_get_ha_usr(config) ==
    LET ha_config == dict_get(config, "homeassistant", NoneV)
    IN  IF ha_config.t # "table" THEN Return(NoneV) ELSE Raise("NameError")

config_get_ha_pass(config) ==
    LET ha_config == dict_get(config, "homeassistant", NoneV)
    IN  IF ha_config.t # "table" THEN Return(NoneV) ELSE Raise("NameError")

config_get_ha_topic(config) ==
    LET ha_config == dict_get(config, "homeassistant", NoneV)
    IN  IF ha_config.t # "table" THEN Return(NoneV) ELSE Raise("NameError")


NoFile == [kind |-> "absent", doc |-> EmptyDoc]
Directory == [kind |-> "dir", doc |-> EmptyDoc]
File(doc) == [kind |-> "file", doc |-> doc]
\* a file that is not valid TOML
Malformed == [kind |-> "badfile", doc |-> EmptyDoc]

InitNoConfig ==
    /\ fs = [p \in Paths |-> NoFile]
    /\ cache = [set |-> FALSE, doc |-> EmptyDoc]
    /\ got = [getter |-> "none", out |-> Return(NoneV)]

\* ---------------------------------------------------------------- actions
InitSession ==
    /\ port = None
    /\ transport = [h \in Handles |-> "unborn"]
    /\ log = <<>>
    /\ last = [op |-> "init", before |-> None, path |-> "out", env |-> NoEnv,
               events |-> <<>>, out |-> Return(<<>>)]
    /\ calls = 0
    /\ scope = "out"
    /\ scopeHandle = None

Init ==
    /\ InitSession
    /\ InitNoConfig

\* the Serial object the next serial.Serial(...) call constructs
IsFresh(h) ==
    /\ h \in Handles
    /\ transport[h] = "unborn"
    /\ \A g \in Handles : g < h => transport[g] # "unborn"

Record(op, env, eff) ==
    /\ UNCHANGED configVars
    /\ log' = log \o eff.events
    /\ last' = [op |-> op, before |-> port, path |-> scope, env |-> env,
                events |-> eff.events, out |-> eff.out]
    /\ calls' = calls + 1

DoOpen(op, fault, fresh) ==
    LET eff == ElegooMars_open(port, fresh, fault)
    IN  /\ port' = eff.port
        /\ transport' = IF eff.opened = None THEN transport
                        ELSE [transport EXCEPT ![eff.opened] = "open"]
        /\ Record(op, NoEnv, eff)

DoClose(op) ==
    LET eff == ElegooMars_close(port)
    IN  /\ port' = port
        /\ transport' = IF eff.closed = None THEN transport
                        ELSE [transport EXCEPT ![eff.closed] = "closed"]
        /\ Record(op, NoEnv, eff)

\* a command called from the caller's code or from the body of a with-block;
\* a failure inside the block leaves the block at once
DoCommand(op, env, eff) ==
    /\ Record(op, env, eff)
    /\ scope' = IF scope = "in" /\ eff.out.kind = "raise" THEN "raised" ELSE scope
    /\ UNCHANGED <<port, transport, scopeHandle>>

\* open() and close() called by the caller's own code; the body of a
\* with-block issues commands only and leaves both calls to the block
open ==
    /\ scope = "out"
    /\ calls < MaxCalls
    /\ \E fault \in BOOLEAN, fresh \in Handles :
          IsFresh(fresh) /\ DoOpen("open", fault, fresh)
    /\ UNCHANGED <<scope, scopeHandle>>

close ==
    /\ scope = "out"
    /\ calls < MaxCalls
    /\ DoClose("close")
    /\ UNCHANGED <<scope, scopeHandle>>

get_firmware_version ==
    /\ scope # "raised"
    /\ calls < MaxCalls
    /\ \E env \in EnvOver(SessionLines) :
        DoCommand("get_firmware_version", env,
                  ElegooMars_get_firmware_version(port, transport, env))

get_state ==
    /\ scope # "raised"
    /\ calls < MaxCalls
    /\ \E env \in EnvOver(SessionLines) :
        DoCommand("get_state", env, ElegooMars_get_state(port, transport, env))

move_to ==
    /\ scope # "raised"
    /\ calls < MaxCalls
    /\ \E env \in EnvOver(SessionLines), z \in ZPositions :
        DoCommand("move_to", env, ElegooMars_move_to(port, transport, z, env))

\* with printer: ... -- block entry calls open(); the block is entered only
\* when open() returned
__enter__ ==
    /\ scope = "out"
    /\ calls < MaxCalls
    /\ \E fault \in BOOLEAN, fresh \in Handles :
          /\ IsFresh(fresh)
          /\ DoOpen("__enter__", fault, fresh)
          /\ scope' = IF fault THEN "out" ELSE "in"
          /\ scopeHandle' = IF fault THEN scopeHandle ELSE fresh

\* block exit calls close(), on normal completion, on an early return and
\* when the body raised; it always runs, so it is not counted against MaxCalls
__exit__ ==
    /\ scope \in {"in", "raised"}
    /\ DoClose("__exit__")
    /\ scope' = "out"
    /\ UNCHANGED scopeHandle

Next ==
    \/ open
    \/ close
    \/ get_firmware_version
    \/ get_state
    \/ move_to
    \/ __enter__
    \/ __exit__

Spec == Init /\ [][Next]_vars

\* ------------------------------------------------------- session claims
SessionOpen == port # None /\ transport[port] = "open"
SessionClosed == port # None /\ transport[port] = "closed"
LastIsCommand == last.op \in CommandOps

IsIO(e) == e.op \in {"write", "readline"}
Count(op, h) == Cardinality({i \in 1..Len(log) : log[i].op = op /\ log[i].h = h})
NumberOf(op) == Cardinality({i \in 1..Len(log) : log[i].op = op})

\* the bytes the last command had to send
IsCommandBytes(op, data) ==
    \/ op = "get_firmware_version" /\ data = M4002
    \/ op = "get_state" /\ data = M4000
    \/ op = "move_to" /\ \E z \in ZPositions : data = move_to_bytes(z)

\* the read of the last command ended at the timeout: no terminating LF
TimedOut(line) == line = <<>> \/ line[Len(line)] # LF

\* C1: on a client on which open() was never called, every command fails
\* with the "not connected" error, and no write and no read is made on any
\* transport.
C1_NotConnectedBeforeOpen ==
    (port = None /\ LastIsCommand) =>
        /\ last.out = Raise(NotOpenedMsg)
        /\ last.events = <<>>
        /\ \A i \in 1..Len(log) : ~IsIO(log[i])

C1_Witness ==
    /\ port = None
    /\ last.op = "move_to"
    /\ calls >= 2
    /\ last.out.kind = "raise"

\* C2: after open() and close(), a command issued without a new open() fails
\* with the "not connected" error and makes no write and no read on the
\* closed transport.
C2_NotConnectedAfterClose ==
    (SessionClosed /\ LastIsCommand) =>
        /\ last.out = Raise(NotOpenedMsg)
        /\ last.events = <<>>

\* C3 as claimed: every command in an open session makes exactly one write
\* and then exactly one readline, so the writes and the reads of the session
\* are equal in number.
C3_OneWriteOneRead ==
    (SessionOpen /\ LastIsCommand) =>
        /\ Len(last.events) = 2
        /\ last.events[1].op = "write"
        /\ last.events[2].op = "readline"

\* C3 as amended: every command in an open session makes exactly one write,
\* of the command's bytes, and then exactly one readline if that write
\* returned and none if it raised; nothing is sent or read a second time,
\* whatever the read gives.  In the whole log every readline comes directly
\* after a write on the same transport.
C3_OneWriteThenReadIfWritten ==
    /\ (SessionOpen /\ LastIsCommand) =>
          /\ last.events =
                IF last.env.wfault
                THEN <<Ev("write", port, last.events[1].data)>>
                ELSE <<Ev("write", port, last.events[1].data),
                       Ev("readline", port, <<>>)>>
          /\ IsCommandBytes(last.op, last.events[1].data)
          /\ Len(log) >= Len(last.events)
          /\ SubSeq(log, Len(log) - Len(last.events) + 1, Len(log)) = last.events
    /\ \A i \in 1..Len(log) :
          log[i].op = "readline" =>
              i > 1 /\ log[i - 1].op = "write" /\ log[i - 1].h = log[i].h
    /\ NumberOf("readline") <= NumberOf("write")

C3_Witness ==
    /\ SessionOpen
    /\ LastIsCommand
    /\ ~last.env.wfault /\ ~last.env.rfault
    /\ last.env.line = <<>>
    /\ NumberOf("write") >= 2
    /\ NumberOf("readline") = NumberOf("write")

C7_OpenTwiceFailsFast ==
    /\ (last.op = "open" /\ last.before # None /\ transport[last.before] = "open") =>
          /\ last.out.kind = "raise"
          /\ port = last.before
          /\ last.events = <<>>
    /\ \A h \in Handles : transport[h] = "open" => port = h

ReplyAlphabet == {"o", "k", " ", CR, LF, BadByte}

\* every line readline() can return, up to MaxReplyLen bytes: bytes up to and
\* including the first LF, or whatever was buffered at the timeout (possibly
\* nothing, possibly no LF)
ReplyLines ==
    LET bodies == SeqsUpTo(ReplyAlphabet \ {LF}, MaxReplyLen)
    IN  bodies \cup {Append(b, LF) : b \in {x \in bodies : Len(x) < MaxReplyLen}}

\* the first command of a session, answered by any line
firmware_version_of_line ==
    /\ SessionOpen
    /\ last.op = "open"
    /\ \E env \in EnvOver(ReplyLines) :
          DoCommand("get_firmware_version", env,
                    ElegooMars_get_firmware_version(port, transport, env))

NextFw ==
    \/ (port = None /\ calls = 0 /\ open)
    \/ firmware_version_of_line

SpecFw == Init /\ [][NextFw]_vars

Decodable(line) == \A i \in 1..Len(line) : line[i] # BadByte

\* "ok <token>" and the line terminator, as the claim words it
IsOkTokenLine(line) ==
    /\ Len(line) >= 5
    /\ SubSeq(line, 1, 3) = <<"o", "k", " ">>
    /\ line[Len(line)] = LF
    /\ \A i \in 4..(Len(line) - 1) :
          line[i] \in Lower \cup Upper \cup Digit \cup {".", "_"}

\* C4: get_firmware_version writes exactly the bytes M4002, once; for a
\* reply text "ok <token>" plus the terminating newline, the token being a
\* non-empty string of letters, digits, "." and "_", it returns that token,
\* and for every other reply text it raises the invalid-response failure.
C4_FirmwareVersionContract ==
    (SessionOpen /\ last.op = "get_firmware_version") =>
        /\ last.events[1] = WriteEv(port, M4002)
        /\ Cardinality({i \in 1..Len(last.events) : last.events[i].op = "write"}) = 1
        /\ (~last.env.wfault /\ ~last.env.rfault /\ Decodable(last.env.line)) =>
              IF IsOkTokenLine(last.env.line)
              THEN last.out = Return(SubSeq(last.env.line, 4, Len(last.env.line) - 1))
              ELSE last.out = Raise(InvalidStatusMsg)

C4_Witness ==
    /\ SessionOpen
    /\ last.op = "get_firmware_version"
    /\ last.env.line = <<"o", "k", " ", "k", "o", LF>>
    /\ last.out = Return(<<"k", "o">>)

\* ------------------------------------------------------------ print status
\* get_print_status is not part of mars.py as given; it is modelled from the
\* specification's table (4.3) and the fixtures of test_mars.py.  A reply
\* text is a sequence of lexemes, each a run of characters: the two firmware
\* phrases, decimal digits, "/", and the end of the first line together with
\* the acknowledgement line that follows it.
M27 == <<"M", "2", "7">>
NotPrinting == "Error:It's not printing now!"
SDPrinting == "SD printing byte "
ThenOkLine == "\r\nok N:0\r\n"
StatusAlphabet == {NotPrinting, SDPrinting, "0", "7", "/", ThenOkLine}
StatusReplies == SeqsUpTo(StatusAlphabet, MaxStatusLen)

UnexpectedResponseMsg == "UnexpectedResponse"

\* PrintStatus; an absent byte count is <<>>, a present one <<n>>
PrintStatus(state, cur, total) ==
    [state |-> state, current_byte |-> cur, total_bytes |-> total]

IsDigits(s) == Len(s) >= 1 /\ \A i \in 1..Len(s) : s[i] \in Digit

\* PRINTING whatever the offset: the "byte 0" case forgotten
PrinterState_of_offset_always_printing(cur) == "PRINTING"

\* state classification: byte offset 0 is STARTING_PRINT, any other PRINTING
PrinterState_of_offset(cur) == IF cur = 0 THEN "STARTING_PRINT" ELSE "PRINTING"

\* classification of the reply text to M27
classify_print_status(text) ==
    LET n == Len(text)
        slashes == {i \in 1..n : text[i] = "/"}
        slash == CHOOSE i \in slashes : TRUE
        cur == SubSeq(text, 2, slash - 1)
        total == SubSeq(text, slash + 1, n - 1)
    IN  IF text = <<NotPrinting, ThenOkLine>>
        THEN Return(PrintStatus("IDLE", <<>>, <<>>))
        ELSE IF /\ n >= 5
                /\ text[1] = SDPrinting
                /\ text[n] = ThenOkLine
                /\ Cardinality(slashes) = 1
                /\ IsDigits(cur)
                /\ IsDigits(total)
        THEN Return(PrintStatus(PrinterState_of_offset(DigitsValue(cur)),
                                <<DigitsValue(cur)>>, <<DigitsValue(total)>>))
        ELSE Raise(UnexpectedResponseMsg)

ElegooMars_get_print_status(self_port, tstate, env) ==
    LET r == _send_and_read(self_port, tstate, M27, env)
    IN  IF r.out.kind = "raise" THEN r
        ELSE [r EXCEPT !.out = classify_print_status(r.out.val)]

\* the first command of a session, answered by any reply text
print_status_of_reply ==
    /\ SessionOpen
    /\ last.op = "open"
    /\ \E env \in EnvOver(StatusReplies) :
          DoCommand("get_print_status", env,
                    ElegooMars_get_print_status(port, transport, env))

NextStatus ==
    \/ (port = None /\ calls = 0 /\ open)
    \/ print_status_of_reply

SpecStatus == Init /\ [][NextStatus]_vars

\* the two accepted shapes, as the claim words them
IsNotPrintingReply(t) ==
    Len(t) = 2 /\ t[1] = NotPrinting /\ t[2] = ThenOkLine

IsPrintingReply(t, c, tot) ==
    /\ IsDigits(c)
    /\ IsDigits(tot)
    /\ t = <<SDPrinting>> \o c \o <<"/">> \o tot \o <<ThenOkLine>>

\* the ways to read t as "SD printing byte <cur>/<total>" and the ok line
PrintingShapes(t) ==
    {ct \in {<<SubSeq(t, 2, i - 1), SubSeq(t, i + 1, Len(t) - 1)>> :
                i \in {j \in 1..Len(t) : t[j] = "/"}} :
        IsPrintingReply(t, ct[1], ct[2])}

\* C5: get_print_status writes M27 and classifies the reply text alone: the
\* "not printing now" reply gives IDLE with both byte counts absent;
\* "SD printing byte <cur>/<total>" gives STARTING_PRINT when cur = 0 and
\* PRINTING when cur > 0, with current_byte = cur and total_bytes = total;
\* any other reply raises unexpected-response.  So the byte counts of a
\* returned PrintStatus are present exactly when its state is STARTING_PRINT
\* or PRINTING.
C5_PrintStatusClassification ==
    (SessionOpen /\ last.op = "get_print_status") =>
        /\ last.events[1] = WriteEv(port, M27)
        /\ (~last.env.wfault /\ ~last.env.rfault) =>
              LET t == last.env.line
                  shapes == PrintingShapes(t)
              IN  /\ IsNotPrintingReply(t) =>
                        last.out = Return(PrintStatus("IDLE", <<>>, <<>>))
                  /\ \A ct \in shapes :
                        /\ last.out.kind = "return"
                        /\ last.out.val.current_byte = <<DigitsValue(ct[1])>>
                        /\ last.out.val.total_bytes = <<DigitsValue(ct[2])>>
                        /\ DigitsValue(ct[1]) = 0 => last.out.val.state = "STARTING_PRINT"
                        /\ DigitsValue(ct[1]) > 0 => last.out.val.state = "PRINTING"
                  /\ (~IsNotPrintingReply(t) /\ shapes = {}) =>
                        last.out = Raise(UnexpectedResponseMsg)
        /\ last.out.kind = "return" =>
              /\ (last.out.val.current_byte # <<>>) <=>
                    (last.out.val.state \in {"STARTING_PRINT", "PRINTING"})
              /\ (last.out.val.total_bytes # <<>>) <=>
                    (last.out.val.state \in {"STARTING_PRINT", "PRINTING"})

C5_Witness ==
    /\ SessionOpen
    /\ last.op = "get_print_status"
    /\ last.env.line = <<SDPrinting, "0", "/", "7", ThenOkLine>>
    /\ last.out = Return(PrintStatus("STARTING_PRINT", <<0>>, <<7>>))

\* ------------------------------------------------ configuration: the calls
\* the files on the search path: none, a directory of that name, a file with
\* the document of the run, a file with another document, or a file that is
\* not valid TOML
InitConfig ==
    /\ InitSession
    /\ \E doc \in Docs :
          fs \in [Paths -> {NoFile, Directory, Malformed, File(doc), File(OtherDoc)}]
    /\ cache = [set |-> FALSE, doc |-> EmptyDoc]
    /\ got = [getter |-> "none", out |-> Return(NoneV)]

\* a getter's call: _get_config(), then the getter's own lines, which run
\* only when _get_config() returned
Called(name, loaded, out) ==
    [getter |-> name, out |-> IF loaded.out.kind = "raise" THEN loaded.out ELSE out]

get_files_directory ==
    /\ cache' = get_config(cache, fs).cache
    /\ got' = Called("get_files_directory", get_config(cache, fs),
                     config_get_files_directory(get_config(cache, fs).cache.doc))
    /\ UNCHANGED <<fs, sessionVars>>

get_printer_display_name ==
    /\ cache' = get_config(cache, fs).cache
    /\ got' = Called("get_printer_display_name", get_config(cache, fs),
                     config_get_printer_display_name(get_config(cache, fs).cache.doc))
    /\ UNCHANGED <<fs, sessionVars>>

get_printer_serial_port ==
    /\ cache' = get_config(cache, fs).cache
    /\ got' = Called("get_printer_serial_port", get_config(cache, fs),
                     config_get_printer_serial_port(get_config(cache, fs).cache.doc))
    /\ UNCHANGED <<fs, sessionVars>>

get_printer_baudrate ==
    /\ cache' = get_config(cache, fs).cache
    /\ got' = Called("get_printer_baudrate", get_config(cache, fs),
                     config_get_printer_baudrate(get_config(cache, fs).cache.doc))
    /\ UNCHANGED <<fs, sessionVars>>

get_relay_pin ==
    /\ cache' = get_config(cache, fs).cache
    /\ got' = Called("get_relay_pin", get_config(cache, fs),
                     config_get_relay_pin(get_config(cache, fs).cache.doc))
    /\ UNCHANGED <<fs, sessionVars>>

get_relay_initial_value ==
    /\ cache' = get_config(cache, fs).cache
    /\ got' = Called("get_relay_initial_value", get_config(cache, fs),
                     config_get_relay_initial_value(get_config(cache, fs).cache.doc))
    /\ UNCHANGED <<fs, sessionVars>>

get_relay_active_high ==
    /\ cache' = get_config(cache, fs).cache
    /\ got' = Called("get_relay_active_high", get_config(cache, fs),
                     config_get_relay_active_high(get_config(cache, fs).cache.doc))
    /\ UNCHANGED <<fs, sessionVars>>

get_http_host ==
    /\ cache' = get_config(cache, fs).cache
    /\ got' = Called("get_http_host", get_config(cache, fs),
                     config_get_http_host(get_config(cache, fs).cache.doc))
    /\ UNCHANGED <<fs, sessionVars>>

get_http_port ==
    /\ cache' = get_config(cache, fs).cache
    /\ got' = Called("get_http_port", get_config(cache, fs),
                     config_get_http_port(get_config(cache, fs).cache.doc))
    /\ UNCHANGED <<fs, sessionVars>>

get_cache_directory ==
    /\ cache' = get_config(cache, fs).cache
    /\ got' = Called("get_cache_directory", get_config(cache, fs),
                     config_get_cache_directory(get_config(cache, fs).cache.doc))
    /\ UNCHANGED <<fs, sessionVars>>

get_ha_srv ==
    /\ cache' = get_config(cache, fs).cache
    /\ got' = Called("get_ha_srv", get_config(cache, fs),
                     config_get_ha_srv(get_config(cache, fs).cache.doc))
    /\ UNCHANGED <<fs, sessionVars>>

get_ha_usr ==
    /\ cache' = get_config(cache, fs).cache
    /\ got' = Called("get_ha_usr", get_config(cache, fs),
                     config_get_ha_usr(get_config(cache, fs).cache.doc))
    /\ UNCHANGED <<fs, sessionVars>>

get_ha_pass ==
    /\ cache' = get_config(cache, fs).cache
    /\ got' = Called("get_ha_pass", get_config(cache, fs),
                     config_get_ha_pass(get_config(cache, fs).cache.doc))
    /\ UNCHANGED <<fs, sessionVars>>

get_ha_topic ==
    /\ cache' = get_config(cache, fs).cache
    /\ got' = Called("get_ha_topic", get_config(cache, fs),
                     config_get_ha_topic(get_config(cache, fs).cache.doc))
    /\ UNCHANGED <<fs, sessionVars>>

NextConfig ==
    \/ get_files_directory
    \/ get_printer_display_name
    \/ get_printer_serial_port
    \/ get_printer_baudrate
    \/ get_relay_pin
    \/ get_relay_initial_value
    \/ get_relay_active_high
    \/ get_http_host
    \/ get_http_port
    \/ get_cache_directory
    \/ get_ha_srv
    \/ get_ha_usr
    \/ get_ha_pass
    \/ get_ha_topic

SpecConfig == InitConfig /\ [][NextConfig]_vars

\* the section and the key each getter reads
GetterSection ==
    [get_printer_display_name |-> "printer", get_printer_serial_port |-> "printer",
     get_printer_baudrate |-> "printer", get_relay_pin |-> "relay_board",
     get_relay_initial_value |-> "relay_board", get_relay_active_high |-> "relay_board",
     get_http_host |-> "http", get_http_port |-> "http",
     get_cache_directory |-> "cache", get_ha_srv |-> "homeassistant",
     get_ha_usr |-> "homeassistant", get_ha_pass |-> "homeassistant",
     get_ha_topic |-> "homeassistant"]

GetterKey ==
    [get_printer_display_name |-> "display_name", get_printer_serial_port |-> "serial_port",
     get_printer_baudrate |-> "baudrate", get_relay_pin |-> "relay_pin",
     get_relay_initial_value |-> "initial_value", get_relay_active_high |-> "active_high",
     get_http_host |-> "host", get_http_port |-> "port",
     get_cache_directory |-> "directory", get_ha_srv |-> "address",
     get_ha_usr |-> "user", get_ha_pass |-> "password",
     get_ha_topic |-> "topic"]

\* the documented defaults
DocumentedDefault ==
    [get_files_directory |-> PathOf(DefaultFilesDirectory),
     get_printer_display_name |-> NoneV,
     get_printer_serial_port |-> StrV(DefaultSerialPort),
     get_printer_baudrate |-> IntV(115200),
     get_relay_pin |-> NoneV, get_relay_initial_value |-> NoneV,
     get_relay_active_high |-> NoneV,
     get_http_host |-> StrV(DefaultHost), get_http_port |-> IntV(5050),
     get_cache_directory |-> StrV(DefaultCacheDirectory),
     get_ha_srv |-> NoneV, get_ha_usr |-> NoneV, get_ha_pass |-> NoneV,
     get_ha_topic |-> NoneV]

NoConfigFile == \A p \in Paths : fs[p].kind \in {"absent", "dir"}
SectionGetterCalled == got.getter \in DOMAIN GetterSection
CalledSection == dict_get(cache.doc, GetterSection[got.getter], NoneV)

\* C9: every getter returns its documented default when no configuration
\* file exists on the search path, and the same default when its section is
\* present but is not a table.
C9_DefaultsWithoutFileOrTable ==
    /\ (got.getter # "none" /\ NoConfigFile) =>
          got.out = Return(DocumentedDefault[got.getter])
    /\ (SectionGetterCalled /\ cache.set /\ CalledSection.t \notin {"none", "table"}) =>
          got.out = Return(DocumentedDefault[got.getter])

C9_Witness ==
    /\ got.getter = "get_printer_baudrate"
    /\ cache.set
    /\ cache.doc = {<<"printer", StrV(<<"x">>)>>}
    /\ got.out = Return(IntV(115200))

\* a value of the type the getter converts to
WellTyped(getter, x) ==
    IF getter \in {"get_printer_baudrate", "get_relay_pin", "get_relay_initial_value",
                   "get_http_port"}
    THEN x.t = "int"
    ELSE IF getter = "get_relay_active_high" THEN x.t = "bool"
    ELSE x.t = "str"

\* C10: a getter whose section is a table does not raise: with the key
\* present (and of the getter's type) it returns that key's value from its
\* own section, with the key absent its default or None.
C10_TableGettersNeverRaise ==
    LET x == dict_get(CalledSection.v, GetterKey[got.getter], NoneV)
    IN  (SectionGetterCalled /\ cache.set /\ CalledSection.t = "table") =>
            /\ x.t = "none" => got.out = Return(DocumentedDefault[got.getter])
            /\ WellTyped(got.getter, x) => got.out = Return(x)

====
